---- MODULE Spec2Model ----
(***************************************************************************)
(* Model of the Coach Voice Agent python voice service                     *)
(* (python_voice_service/main.py, python_voice_service/piper_http.py) and  *)
(* of its launcher (scripts/start_local_services.py).                      *)
(*                                                                         *)
(* One uvicorn process runs main.py's FastAPI app on a single-threaded     *)
(* asyncio event loop.  A coroutine keeps the loop from one await to the   *)
(* next; `loop` names the request whose synchronous code currently holds   *)
(* the loop thread (0: the loop is free to dispatch).  piper_http.py's app *)
(* is a process of its own with a loop of its own.  Strings the code       *)
(* inspects (strip, lower, substring) are sequences of one-character       *)
(* strings, messages are sequences of words.  Audio samples are fractions  *)
(* <<numerator, denominator>>; the buffer length _resample_audio computes  *)
(* is computed in binary64 arithmetic, bit by bit.  The launcher is the    *)
(* main thread of its process, with the signal handlers the interpreter    *)
(* runs on top of it, and the children it starts.                          *)
(***************************************************************************)
EXTENDS Integers, Sequences, FiniteSets, TLC

\* ------------------------------------------------------------------ bounds
MaxReq == 2
MaxBytes == 3
MaxTokens == 1
MaxTime == 2
MaxCount == 2

Req == 1..MaxReq
Tokens == 1..MaxTokens

\* ------------------------------------------------------------ text helpers
RECURSIVE LStrip(_)
LStrip(s) == IF s # <<>> /\ Head(s) = " " THEN LStrip(Tail(s)) ELSE s

RECURSIVE RStrip(_)
RStrip(s) ==
    IF s # <<>> /\ s[Len(s)] = " " THEN RStrip(SubSeq(s, 1, Len(s) - 1)) ELSE s

\* str.strip(): leading and trailing whitespace removed
Strip(s) == RStrip(LStrip(s))

LowerChar(c) ==
    CASE c = "C" -> "c" [] c = "P" -> "p" [] c = "U" -> "u"
      [] c = "F" -> "f" [] c = "L" -> "l" [] c = "O" -> "o"
      [] c = "A" -> "a" [] c = "T" -> "t" [] c = "R" -> "r"
      [] OTHER -> c

\* str.lower()
Lower(s) == [i \in 1..Len(s) |-> LowerChar(s[i])]

\* Python's `needle in hay` on strings
Contains(hay, needle) ==
    \E i \in 1..(Len(hay) - Len(needle) + 1) :
        SubSeq(hay, i, i + Len(needle) - 1) = needle

\* texts a client (or the generation backend) sends: of no characters, of
\* whitespace only, and with characters between whitespace
Texts == {<<>>, <<" ">>, <<" ", "a", " ">>}

\* --------------------------------------------------------- configuration
sFloat16 == <<"f", "l", "o", "a", "t", "1", "6">>
sInt8 == <<"i", "n", "t", "8">>
sInt8Float16 == sInt8 \o <<"_">> \o sFloat16
sBFloat16 == <<"b">> \o sFloat16
sFloat32 == <<"f", "l", "o", "a", "t", "3", "2">>
sUpperFloat16 == <<"F", "L", "O", "A", "T", "1", "6">>
sCpu == <<"c", "p", "u">>
sUpperCpu == <<"C", "P", "U">>
sCuda == <<"c", "u", "d", "a">>
sAuto == <<"a", "u", "t", "o">>

\* values WHISPER_COMPUTE_TYPE / WHISPER_DEVICE may hold; "unset" is no variable
Unset == <<"unset">>
ComputeEnv == {Unset, sInt8Float16, sFloat16, sBFloat16, sInt8, sFloat32, sUpperFloat16}
DeviceEnv == {Unset, sAuto, sCuda, sCpu, sUpperCpu, sCpu \o <<" ">>}

VARIABLES
    phase,      \* "starting" | "ready" | "aborted": the ASGI lifespan of main.py's app
    cache,      \* lru_cache of _load_model: 0 = empty, else the cached handle
    built,      \* number of WhisperModel constructions that succeeded
    attempts,   \* log of WhisperModel(...) constructor calls
    env,        \* process environment: [compute, device]
    req,        \* request slots
    loop,       \* request whose synchronous code holds the event loop, 0 = free
    now,        \* wall clock (ticks)
    issued,     \* token -> time of issue, -1 = never issued
    store,      \* tokens held by the session token store
    accepted,   \* token -> transcribe requests carrying it that reached the model
    gating,     \* deployment asks for token gating
    resampling, \* a call of _resample_audio: its arguments and what it returned
    launcher    \* scripts/start_local_services.py: the launcher and its children

vars == <<phase, cache, built, attempts, env, req, loop, now, issued, store,
          accepted, gating, resampling, launcher>>

Idle ==
    [kind |-> "none", pc |-> "idle", text |-> <<>>, bytes |-> 0, token |-> 0,
     status |-> 0, backend |-> FALSE, model |-> FALSE, handle |-> 0,
     cause |-> "none", exc |-> "none", detail |-> <<>>, at |-> 0,
     rate |-> 0, pcm |-> <<>>, fed |-> <<>>, speech |-> FALSE, heard |-> <<>>,
     reply |-> [text |-> <<>>, result |-> <<>>]]

\* os.getenv + strip, or the default
_environment(value, default) == IF value = Unset THEN default ELSE Strip(value)

\* ------------------------------------------------------------ _load_model
\* a fallback that keeps the requested compute type
KeepCompute(ct) == ct

_cpu_compute(ct) == IF Contains(Lower(ct), sFloat16) THEN sInt8 ELSE ct

Attempt(by, dev, ct, ok) == [by |-> by, device |-> dev, compute |-> ct, ok |-> ok]

\* The body of _load_model (the function under the lru_cache): the constructor
\* calls it makes, and whether a handle comes out.  cudaOk / cpuOk: whether a
\* WhisperModel construction on that device succeeds now.
Construct(by, e, cudaOk, cpuOk) ==
    LET compute_type == _environment(e.compute, sInt8Float16)
        device_pref == Lower(_environment(e.device, sAuto))
        cpuTry == Attempt(by, "cpu", _cpu_compute(compute_type), cpuOk)
        cudaTry == Attempt(by, "cuda", compute_type, cudaOk)
    IN  IF device_pref = sCpu
        THEN [ok |-> cpuOk, calls |-> <<cpuTry>>]
        ELSE IF cudaOk
             THEN [ok |-> TRUE, calls |-> <<cudaTry>>]
             ELSE [ok |-> cpuOk, calls |-> <<cudaTry, cpuTry>>]

\* a loader that never looks in the cache
UncachedCall(by, c, n, e, cudaOk, cpuOk) ==
    LET r == Construct(by, e, cudaOk, cpuOk)
    IN  IF r.ok
        THEN [ok |-> TRUE, handle |-> n + 1, cache |-> n + 1, built |-> n + 1,
              calls |-> r.calls]
        ELSE [ok |-> FALSE, handle |-> 0, cache |-> c, built |-> n, calls |-> r.calls]

\* lru_cache(maxsize=1) around a function of no arguments: a hit returns the
\* cached handle; a miss runs the body and caches a returned handle, never an
\* exception.
CachedCall(by, c, n, e, cudaOk, cpuOk) ==
    IF c # 0
    THEN [ok |-> TRUE, handle |-> c, cache |-> c, built |-> n, calls |-> <<>>]
    ELSE LET r == Construct(by, e, cudaOk, cpuOk)
         IN  IF r.ok
             THEN [ok |-> TRUE, handle |-> n + 1, cache |-> n + 1,
                   built |-> n + 1, calls |-> r.calls]
             ELSE [ok |-> FALSE, handle |-> 0, cache |-> c, built |-> n,
                   calls |-> r.calls]

_load_model(by, c, n, e, cudaOk, cpuOk) == CachedCall(by, c, n, e, cudaOk, cpuOk)

\* ---------------------------------------------------------------- startup
\* a startup hook that leaves the model to the first request
LazyStartup ==
    /\ phase = "starting"
    /\ phase' = "ready"
    /\ UNCHANGED <<cache, built, attempts, env, req, loop, now, issued, store,
                   accepted, gating, resampling, launcher>>

\* The startup hook: the app serves requests only once it has returned; an
\* exception out of it fails the lifespan startup and the server exits.
_startup_event ==
    /\ phase = "starting"
    /\ \E cudaOk \in BOOLEAN, cpuOk \in BOOLEAN :
        LET r == _load_model("startup", cache, built, env, cudaOk, cpuOk)
        IN  /\ cache' = r.cache
            /\ built' = r.built
            /\ attempts' = attempts \o r.calls
            /\ phase' = IF r.ok THEN "ready" ELSE "aborted"
    /\ UNCHANGED <<env, req, loop, now, issued, store, accepted, gating, resampling, launcher>>

\* the event loop dispatches a request: the server is up and no coroutine is
\* in the middle of synchronous code
CanDispatch == phase = "ready" /\ loop = 0

Finish(r, status, cause) ==
    [req[r] EXCEPT !.pc = "done", !.status = status, !.cause = cause]

\* ------------------------------------------------------------ healthcheck
healthcheck(r) ==
    /\ CanDispatch
    /\ req[r].pc = "idle"
    /\ req' = [req EXCEPT ![r] = [Idle EXCEPT !.kind = "health", !.pc = "done",
                                              !.status = 200, !.at = now]]
    /\ UNCHANGED <<phase, cache, built, attempts, env, loop, now, issued, store,
                   accepted, gating, resampling, launcher>>

\* -------------------------------------------------------------- transcribe
DEFAULT_SAMPLE_RATE == 16000

\* int16 samples a payload of n bytes of silence decodes to
Quiet(n) == [i \in 1..(n \div 2) |-> 0]

\* A POST /transcribe arrives: `bytes` is the length of its body, `pcm` the
\* int16 samples in it, `rate` the sample_rate query parameter (here left to
\* its default).  The coroutine then awaits request.body().
TranscribeArrive(r) ==
    /\ CanDispatch
    /\ req[r].pc = "idle"
    /\ \E n \in 0..MaxBytes :
        req' = [req EXCEPT ![r] = [Idle EXCEPT !.kind = "transcribe", !.pc = "body",
                                               !.bytes = n, !.pcm = Quiet(n),
                                               !.rate = DEFAULT_SAMPLE_RATE]]
    /\ UNCHANGED <<phase, cache, built, attempts, env, loop, now, issued, store,
                   accepted, gating, resampling, launcher>>

\* The same, from a client that sends a wake token along.  The handler
\* declares no parameter for it, so the framework drops it; `token` keeps what
\* the client sent.
TranscribeArriveWithToken(r) ==
    /\ CanDispatch
    /\ req[r].pc = "idle"
    /\ \E n \in 0..MaxBytes, tok \in Tokens :
        req' = [req EXCEPT ![r] = [Idle EXCEPT !.kind = "transcribe", !.pc = "body",
                                               !.bytes = n, !.pcm = Quiet(n),
                                               !.rate = DEFAULT_SAMPLE_RATE,
                                               !.token = tok]]
    /\ UNCHANGED <<phase, cache, built, attempts, env, loop, now, issued, store,
                   accepted, gating, resampling, launcher>>

\* sample rates a client names; Query(ge=8000, le=48000) turns others away
SampleRates == {8000, 16000, 48000}

\* int16 samples a body holds: one, two and three of them, the extremes among
\* them
PcmBuffers == {<<0>>, <<-1, 1>>, <<-32768, 0, 32767>>}

\* The same, with sound in the body and a sample_rate of the client's choice.
TranscribeArriveAudio(r) ==
    /\ CanDispatch
    /\ req[r].pc = "idle"
    /\ \E x \in PcmBuffers, sr \in SampleRates :
        req' = [req EXCEPT ![r] = [Idle EXCEPT !.kind = "transcribe", !.pc = "body",
                                               !.bytes = 2 * Len(x), !.pcm = x,
                                               !.rate = sr]]
    /\ UNCHANGED <<phase, cache, built, attempts, env, loop, now, issued, store,
                   accepted, gating, resampling, launcher>>

\* The same, with speech in the body: what the backend makes of it is chosen
\* when the inference returns.
TranscribeArriveSpeech(r) ==
    /\ CanDispatch
    /\ req[r].pc = "idle"
    /\ req' = [req EXCEPT ![r] = [Idle EXCEPT !.kind = "transcribe", !.pc = "body",
                                              !.bytes = 2, !.pcm = <<1>>,
                                              !.rate = DEFAULT_SAMPLE_RATE,
                                              !.speech = TRUE]]
    /\ UNCHANGED <<phase, cache, built, attempts, env, loop, now, issued, store,
                   accepted, gating, resampling, launcher>>

\* np.frombuffer(payload, dtype=np.int16): the number of samples, or -1 for the
\* ValueError numpy raises when the buffer is no whole number of elements
frombuffer(n) == IF n % 2 # 0 THEN -1 ELSE n \div 2

Bump(f, t) == IF t = 0 THEN f ELSE [f EXCEPT ![t] = IF @ < MaxCount THEN @ + 1 ELSE @]

\* ---- IEEE-754 binary64, round to nearest even.  A positive float is
\* [m, e]: m its 53 significand bits, most significant first, value m * 2^e.
MantissaBits == 53

RECURSIVE Pow2(_)
Pow2(k) == IF k = 0 THEN 1 ELSE 2 * Pow2(k - 1)

RECURSIVE BitsToInt(_)
BitsToInt(b) == IF b = <<>> THEN 0 ELSE 2 * BitsToInt(SubSeq(b, 1, Len(b) - 1)) + b[Len(b)]

RECURSIVE IntToBits(_)
IntToBits(k) == IF k = 0 THEN <<>> ELSE IntToBits(k \div 2) \o <<k % 2>>

RECURSIVE IncBits(_)
IncBits(b) ==
    IF b = <<>> THEN <<1>>
    ELSE IF b[Len(b)] = 0 THEN SubSeq(b, 1, Len(b) - 1) \o <<1>>
    ELSE IncBits(SubSeq(b, 1, Len(b) - 1)) \o <<0>>

\* bits (first bit 1, at least 53 of them) times 2^e, plus a nonzero tail
\* below the last bit when `sticky`, rounded to 53 bits
RoundFloat(bits, e, sticky) ==
    LET m    == SubSeq(bits, 1, MantissaBits)
        rest == SubSeq(bits, MantissaBits + 1, Len(bits))
        half == rest # <<>> /\ rest[1] = 1
        more == sticky \/ \E i \in 2..Len(rest) : rest[i] = 1
        up   == half /\ (more \/ m[MantissaBits] = 1)
        mu   == IncBits(m)
    IN  IF ~up THEN [m |-> m, e |-> e + Len(rest)]
        ELSE IF Len(mu) > MantissaBits
        THEN [m |-> SubSeq(mu, 1, MantissaBits), e |-> e + Len(rest) + 1]
        ELSE [m |-> mu, e |-> e + Len(rest)]

\* the smallest p with n < d * 2^p
RECURSIVE Scale(_, _, _)
Scale(n, d, p) == IF n < d * Pow2(p) THEN p ELSE Scale(n, d, p + 1)

\* binary long division of rem by den, rem < den: the zeros before the
\* quotient's first 1, then `want` bits from that 1 on, and the remainder
RECURSIVE DivBits(_, _, _, _, _)
DivBits(rem, den, zeros, bits, want) ==
    IF Len(bits) = want THEN [zeros |-> zeros, bits |-> bits, rem |-> rem]
    ELSE LET b == IF 2 * rem >= den THEN 1 ELSE 0
             nrem == 2 * rem - b * den
         IN  IF bits = <<>> /\ b = 0
             THEN DivBits(nrem, den, zeros + 1, bits, want)
             ELSE DivBits(nrem, den, zeros, bits \o <<b>>, want)

\* n / float(d) for positive integers n, d
FloatDiv(n, d) ==
    LET p == Scale(n, d, 0)
        q == DivBits(n, d * Pow2(p), 0, <<>>, MantissaBits + 1)
    IN  RoundFloat(q.bits, p - (q.zeros + MantissaBits + 1), q.rem # 0)

\* the bits of (bits * k + carry), last bit first (the test of v has it
\* evaluated before the higher bits are)
RECURSIVE MulBits(_, _, _)
MulBits(bits, k, carry) ==
    IF bits = <<>> THEN IntToBits(carry)
    ELSE LET v == bits[Len(bits)] * k + carry
         IN  IF v % 2 = 0
             THEN MulBits(SubSeq(bits, 1, Len(bits) - 1), k, v \div 2) \o <<0>>
             ELSE MulBits(SubSeq(bits, 1, Len(bits) - 1), k, v \div 2) \o <<1>>

\* x * k for a float x and a positive integer k
FloatMul(x, k) == RoundFloat(MulBits(x.m, k, 0), x.e, FALSE)

\* int(math.ceil(x)) for a float x > 0
CeilFloat(x) ==
    IF x.e >= 0 THEN BitsToInt(x.m) * Pow2(x.e)
    ELSE IF 0 - x.e >= MantissaBits THEN 1
    ELSE LET k == MantissaBits + x.e
         IN  BitsToInt(SubSeq(x.m, 1, k))
             + (IF \E i \in (k + 1)..MantissaBits : x.m[i] = 1 THEN 1 ELSE 0)

Max(a, b) == IF a >= b THEN a ELSE b

\* the target_length of _resample_audio for a buffer of `size` samples
target_length(size, source_rate, target_rate) ==
    Max(1, CeilFloat(FloatMul(FloatDiv(size, source_rate), target_rate)))

astype_unscaled(pcm) == [i \in 1..Len(pcm) |-> <<pcm[i], 1>>]

\* audio.astype(np.float32) / 32768.0: a sample k becomes the float
\* k / 32768, written <<k, 32768>>
astype_float32(pcm) == [i \in 1..Len(pcm) |-> <<pcm[i], 32768>>]

\* np.interp(target_indices, source_indices, samples) at the j-th of num
\* target indices np.linspace(0, n - 1, num): a sample, or the point between two
\* neighbours, as a fraction whose rounding to float32 is left out
interp(samples, num, j) ==
    LET n    == Len(samples)
        den  == IF num > 1 THEN num - 1 ELSE 1
        pos  == (j - 1) * (n - 1)
        lo   == pos \div den
        f    == pos % den
    IN  IF f = 0 THEN samples[lo + 1]
        ELSE <<samples[lo + 1][1] * (den - f) + samples[lo + 2][1] * f,
               samples[lo + 1][2] * den>>

_resample_audio(samples, source_rate, target_rate) ==
    IF source_rate = target_rate \/ Len(samples) = 0 THEN samples
    ELSE LET num == target_length(Len(samples), source_rate, target_rate)
         IN  [j \in 1..num |-> interp(samples, num, j)]

\* the audio handed to model.transcribe
ModelInput(pcm, sample_rate) ==
    LET audio == astype_float32(pcm)
    IN  IF sample_rate # DEFAULT_SAMPLE_RATE
        THEN _resample_audio(audio, sample_rate, DEFAULT_SAMPLE_RATE)
        ELSE audio

\* The handler from the body's arrival up to the call of model.transcribe.
TranscribeRun(r) ==
    /\ loop = 0
    /\ req[r].kind = "transcribe" /\ req[r].pc = "body"
    /\ LET n == req[r].bytes
           size == frombuffer(n)
       IN  IF n = 0
           THEN /\ req' = [req EXCEPT ![r] = Finish(r, 400, "empty")]
                /\ UNCHANGED <<cache, built, attempts, loop, accepted>>
           ELSE IF size = -1
           THEN \* the ValueError is not caught: the framework answers 500
                /\ req' = [req EXCEPT ![r] = Finish(r, 500, "frombuffer")]
                /\ UNCHANGED <<cache, built, attempts, loop, accepted>>
           ELSE IF size = 0
           THEN /\ req' = [req EXCEPT ![r] = Finish(r, 400, "invalid")]
                /\ UNCHANGED <<cache, built, attempts, loop, accepted>>
           ELSE \E cudaOk \in BOOLEAN, cpuOk \in BOOLEAN :
                LET m == _load_model("request", cache, built, env, cudaOk, cpuOk)
                IN  /\ cache' = m.cache
                    /\ built' = m.built
                    /\ attempts' = attempts \o m.calls
                    /\ IF m.ok
                       THEN /\ req' = [req EXCEPT ![r] =
                                         [@ EXCEPT !.pc = "infer", !.model = TRUE,
                                                   !.handle = m.handle, !.at = now,
                                                   !.fed = ModelInput(req[r].pcm,
                                                                      req[r].rate)]]
                            /\ loop' = r
                            /\ accepted' = Bump(accepted, req[r].token)
                       ELSE /\ req' = [req EXCEPT ![r] = Finish(r, 500, "load")]
                            /\ UNCHANGED <<loop, accepted>>
    /\ UNCHANGED <<phase, env, now, issued, store, gating, resampling, launcher>>

\* ---- what the backend returns
wRachel == <<"r", "a", "c", "h", "e", "l">>
wRichel == <<"r", "i", "c", "h", "e", "l">>
wRichelle == <<"r", "i", "c", "h", "e", "l", "l", "e">>
wRachal == <<"r", "a", "c", "h", "a", "l">>
wRaychel == <<"r", "a", "y", "c", "h", "e", "l">>
wRa == <<"r", "a">>
wChel == <<"c", "h", "e", "l">>
wRach == <<"r", "a", "c", "h">>
wEl == <<"e", "l">>
wRaChel == wRa \o <<" ">> \o wChel
wRachEl == wRach \o <<" ">> \o wEl
wOpen == <<"o", "p", "e", "n">>

\* WAKE_WORD and WAKE_WORD_ALIASES as the module computes them when the
\* environment names neither
WAKE_WORD == Lower(Strip(wRachel))
WAKE_WORD_ALIASES ==
    {Lower(Strip(s)) : s \in {wRachel, <<" ">> \o wRichel, <<" ">> \o wRichelle,
                              <<" ">> \o wRachal, <<" ">> \o wRaychel,
                              <<" ">> \o wRaChel, <<" ">> \o wRachEl}}

\* a word's start or end as the backend reports it: a number of seconds or None
None == [has |-> FALSE, val |-> 0]
Some(v) == [has |-> TRUE, val |-> v]
Times == {None, Some(-1), Some(1), Some(2)}

Word(t, s, e) == [word |-> t, start |-> s, end |-> e]
Segment(t, ws) == [text |-> t, words |-> ws]

\* Segment lists the backend returns for speech: one word under every pair of
\* times; the near-spellings alone in a segment, cased and padded; a segment
\* of no text whose words carry it; a phrase split over two segments.
SpokenTexts ==
    {wRachel, <<" ", "R">> \o Tail(wRichel), wRichelle \o <<" ">>, wRachal,
     wRaychel, wRaChel, wRachEl, wOpen, wOpen \o <<" ">> \o wRachel}
Heard ==
         {<<Segment(wOpen, <<Word(<<" ">> \o wOpen, s, e)>>)>> : s \in Times, e \in Times}
    \cup {<<Segment(t, <<>>)>> : t \in SpokenTexts}
    \cup {<<Segment(<<" ">>, <<Word(<<" ">> \o wRichel, Some(1), Some(2))>>)>>,
          <<Segment(<<>>, <<Word(<<" ">>, None, None),
                            Word(<<" ">> \o wRa, Some(1), Some(1)),
                            Word(<<" ">> \o wChel, Some(1), Some(2))>>)>>,
          <<Segment(wRa, <<Word(wRa, Some(1), Some(2))>>),
            Segment(<<" ">> \o wChel, <<Word(wChel, Some(2), Some(1))>>)>>}

\* " ".join(parts)
RECURSIVE Join(_)
Join(parts) ==
    IF parts = <<>> THEN <<>>
    ELSE IF Len(parts) = 1 THEN parts[1]
    ELSE parts[1] \o <<" ">> \o Join(Tail(parts))

NoClamp(t) == IF t.has THEN t.val ELSE 0

\* max(0.0, float(t) if t is not None else 0.0)
ClampTime(t) == Max(0, IF t.has THEN t.val ELSE 0)

HasText(w) == Strip(w.word) # <<>>

\* the entries one segment adds to `words`
WordEntries(segment) ==
    LET kept == SelectSeq(segment.words, HasText)
    IN  [i \in 1..Len(kept) |->
            [word |-> Strip(kept[i].word), start |-> ClampTime(kept[i].start),
             end |-> ClampTime(kept[i].end)]]

RECURSIVE CollectWords(_)
CollectWords(segments) ==
    IF segments = <<>> THEN <<>>
    ELSE WordEntries(Head(segments)) \o CollectWords(Tail(segments))

RECURSIVE CollectTexts(_)
CollectTexts(segments) ==
    IF segments = <<>> THEN <<>>
    ELSE (IF Strip(Head(segments).text) # <<>> THEN <<Strip(Head(segments).text)>>
          ELSE <<>>) \o CollectTexts(Tail(segments))

\* the spellings the handler rewrites
NearSpellings == {wRachel, wRaChel, wRachal, wRichel, wRichelle, wRachEl}

\* the response body: "text" and "result"
BuildResponse(segments) ==
    LET words      == CollectWords(segments)
        joined     == Strip(Join(CollectTexts(segments)))
        normalized == Lower(joined)
        full_text  == IF normalized \in NearSpellings THEN wRachel ELSE joined
    IN  [text   |-> IF full_text = <<>> /\ words # <<>>
                    THEN Strip(Join([i \in 1..Len(words) |-> words[i].word]))
                    ELSE full_text,
         result |-> words]

\* model.transcribe and list(segments_generator) return: the response is built
\* and the coroutine ends.  Silence passes no voice activity filter and yields
\* no segment.
TranscribeFinish(r) ==
    /\ loop = r
    /\ req[r].kind = "transcribe" /\ req[r].pc = "infer"
    /\ \E segments \in (IF req[r].speech THEN Heard ELSE {<<>>}) :
        req' = [req EXCEPT ![r] = [Finish(r, 200, "ok") EXCEPT
                                      !.heard = segments,
                                      !.reply = BuildResponse(segments)]]
    /\ loop' = 0
    /\ UNCHANGED <<phase, cache, built, attempts, env, now, issued, store,
                   accepted, gating, resampling, launcher>>

\* the response has been sent; the slot serves the next request
Recycle(r) ==
    /\ req[r].pc = "done"
    /\ req' = [req EXCEPT ![r] = Idle]
    /\ UNCHANGED <<phase, cache, built, attempts, env, loop, now, issued, store,
                   accepted, gating, resampling, launcher>>

\* ----------------------------------------------------------------- respond
\* What the generation backend does with the POST: no answer (connection
\* error, timeout), or a status and a body; a JSON object body has a
\* "response" member or not.
OllamaAnswers ==
    {[net |-> "error", status |-> 0, body |-> "none", field |-> "none", value |-> <<>>]}
    \cup [net : {"ok"}, status : {204, 500}, body : {"notjson"}, field : {"none"},
          value : {<<>>}]
    \cup [net : {"ok"}, status : {200}, body : {"notjson", "array"}, field : {"none"},
          value : {<<>>}]
    \cup [net : {"ok"}, status : {200}, body : {"object"},
          field : {"absent", "null", "number", "zero"}, value : {<<>>}]
    \cup [net : {"ok"}, status : {200}, body : {"object"}, field : {"string"},
          value : Texts]

\* _generate_coach_reply from the backend's answer on: the reply, the
\* OllamaError it raises, or the other exception that escapes it
_generate_coach_reply(a) ==
    IF a.net = "error" THEN [exc |-> "OllamaError", text |-> <<>>]
    ELSE IF a.status # 200 THEN [exc |-> "OllamaError", text |-> <<>>]
    ELSE IF a.body = "notjson" THEN [exc |-> "JSONDecodeError", text |-> <<>>]
    ELSE IF a.body = "array" THEN [exc |-> "AttributeError", text |-> <<>>]
    ELSE IF a.field = "number" THEN [exc |-> "AttributeError", text |-> <<>>]
    ELSE LET reply_text == IF a.field = "string" THEN Strip(a.value) ELSE <<>>
         IN  IF reply_text = <<>>
             THEN [exc |-> "OllamaError", text |-> <<>>]
             ELSE [exc |-> "none", text |-> reply_text]

\* how the backend answered, as the caller of respond() would describe it
AnswerKind(a) ==
    IF a.net = "error" THEN "network"
    ELSE IF a.status # 200 THEN "status"
    ELSE IF a.body # "object" \/ a.field = "number" THEN "unreadable"
    ELSE IF a.field = "absent" \/ a.field = "null" THEN "missing"
    ELSE IF a.field = "zero" \/ Strip(a.value) = <<>> THEN "empty"
    ELSE "text"

\* POST /respond up to the await of the backend call.  The request model
\* refuses a text of no characters (422) before the handler runs.
RespondArrive(r) ==
    /\ CanDispatch
    /\ req[r].pc = "idle"
    /\ \E text \in Texts :
        LET user_text == Strip(text)
            q == [Idle EXCEPT !.kind = "respond", !.text = text]
        IN  req' = [req EXCEPT ![r] =
                IF Len(text) < 1
                THEN [q EXCEPT !.pc = "done", !.status = 422, !.cause = "validation"]
                ELSE IF user_text = <<>>
                THEN [q EXCEPT !.pc = "done", !.status = 400, !.cause = "empty"]
                ELSE [q EXCEPT !.pc = "ollama", !.backend = TRUE]]
    /\ UNCHANGED <<phase, cache, built, attempts, env, loop, now, issued, store,
                   accepted, gating, resampling, launcher>>

\* the backend call ends and respond() resumes
RespondFinish(r) ==
    /\ loop = 0
    /\ req[r].kind = "respond" /\ req[r].pc = "ollama"
    /\ \E a \in OllamaAnswers :
        LET g == _generate_coach_reply(a)
            status == IF g.exc = "none" THEN 200
                      ELSE IF g.exc = "OllamaError" THEN 502
                      ELSE 500
        IN  req' = [req EXCEPT ![r] =
                [@ EXCEPT !.pc = "done", !.status = status, !.cause = AnswerKind(a),
                          !.exc = g.exc, !.detail = g.text]]
    /\ UNCHANGED <<phase, cache, built, attempts, env, loop, now, issued, store,
                   accepted, gating, resampling, launcher>>

\* -------------------------------------------------------------- synthesize
\* What a Piper invocation meets: whether PIPER_MODEL_PATH is configured, how
\* the launch goes, the exit code, the stderr text, whether out.wav exists.
wMarker == "PIPER_MODEL_PATH"
StderrTexts == {<<>>, <<" ">>, <<"boom">>, <<"no", " ", wMarker, " ">>}

PiperWorlds ==
    [modelPath : {FALSE}, launch : {"ok"}, rc : {0}, stderr : {<<>>}, out : {TRUE}]
    \cup [modelPath : {TRUE}, launch : {"notfound", "oserror"}, rc : {0},
          stderr : {<<>>}, out : {FALSE}]
    \cup [modelPath : {TRUE}, launch : {"ok"}, rc : {1}, stderr : StderrTexts,
          out : BOOLEAN]
    \cup [modelPath : {TRUE}, launch : {"ok"}, rc : {0}, stderr : {<<>>},
          out : BOOLEAN]

\* which of the failure conditions the invocation is in, in the order they
\* can occur
PiperKind(w) ==
    IF ~w.modelPath THEN "nomodelpath"
    ELSE IF w.launch = "notfound" THEN "noexe"
    ELSE IF w.launch = "oserror" THEN "launch"
    ELSE IF w.rc # 0 THEN "nonzero"
    ELSE IF ~w.out THEN "nooutput"
    ELSE "ok"

\* main.py's _invoke_piper (with _build_piper_command): the exception it
\* raises with its message, and whether subprocess.run was called
_invoke_piper(w) ==
    IF ~w.modelPath
    THEN [exc |-> "RuntimeError", msg |-> <<wMarker, " ", "not", " ", "configured">>,
          ran |-> FALSE]
    ELSE IF w.launch = "notfound"
    THEN [exc |-> "FileNotFoundError", msg |-> <<"no", " ", "such", " ", "file">>,
          ran |-> TRUE]
    ELSE IF w.launch = "oserror"
    THEN [exc |-> "RuntimeError", msg |-> <<"Failed", " ", "to", " ", "launch">>,
          ran |-> TRUE]
    ELSE IF w.rc # 0
    THEN LET stderr_text == Strip(w.stderr)
         IN  [exc |-> "RuntimeError",
              msg |-> IF stderr_text # <<>> THEN stderr_text
                      ELSE <<"non-zero", " ", "exit">>,
              ran |-> TRUE]
    ELSE IF ~w.out
    THEN [exc |-> "RuntimeError", msg |-> <<"no", " ", "output", " ", "file">>,
          ran |-> TRUE]
    ELSE [exc |-> "none", msg |-> <<>>, ran |-> TRUE]

\* synthesize()'s except clauses: the status for what _invoke_piper raised
SynthStatus(exc, msg) ==
    IF exc = "none" THEN 200
    ELSE IF exc = "FileNotFoundError" THEN 500
    ELSE LET message == IF Strip(msg) # <<>> THEN Strip(msg)
                        ELSE <<"Piper", " ", "synthesis", " ", "failed">>
         IN  IF Contains(message, <<wMarker>>) THEN 503 ELSE 500

\* a handler that tests the text for emptiness before trimming it
SynthArriveUntrimmed(r) ==
    /\ CanDispatch
    /\ req[r].pc = "idle"
    /\ \E t \in Texts :
        LET q == [Idle EXCEPT !.kind = "synthesize", !.text = t]
        IN  req' = [req EXCEPT ![r] =
                IF Len(t) < 1
                THEN [q EXCEPT !.pc = "done", !.status = 422, !.cause = "validation"]
                ELSE [q EXCEPT !.pc = "executor"]]
    /\ UNCHANGED <<phase, cache, built, attempts, env, loop, now, issued, store,
                   accepted, gating, resampling, launcher>>

\* POST /tts up to the await of run_in_executor
SynthArrive(r) ==
    /\ CanDispatch
    /\ req[r].pc = "idle"
    /\ \E t \in Texts :
        LET text == Strip(t)
            q == [Idle EXCEPT !.kind = "synthesize", !.text = t]
        IN  req' = [req EXCEPT ![r] =
                IF Len(t) < 1
                THEN [q EXCEPT !.pc = "done", !.status = 422, !.cause = "validation"]
                ELSE IF text = <<>>
                THEN [q EXCEPT !.pc = "done", !.status = 400, !.cause = "empty"]
                ELSE [q EXCEPT !.pc = "executor"]]
    /\ UNCHANGED <<phase, cache, built, attempts, env, loop, now, issued, store,
                   accepted, gating, resampling, launcher>>

\* a thread of the default executor runs _invoke_piper; it needs no event loop
PiperJob(r) ==
    /\ req[r].kind = "synthesize" /\ req[r].pc = "executor"
    /\ \E w \in PiperWorlds :
        LET p == _invoke_piper(w)
        IN  req' = [req EXCEPT ![r] =
                [@ EXCEPT !.pc = "joined", !.backend = p.ran, !.cause = PiperKind(w),
                          !.exc = p.exc, !.detail = p.msg]]
    /\ UNCHANGED <<phase, cache, built, attempts, env, loop, now, issued, store,
                   accepted, gating, resampling, launcher>>

\* the executor future resolves and synthesize() resumes on the loop
SynthFinish(r) ==
    /\ loop = 0
    /\ req[r].kind = "synthesize" /\ req[r].pc = "joined"
    /\ req' = [req EXCEPT ![r] =
            [@ EXCEPT !.pc = "done",
                      !.status = SynthStatus(req[r].exc, req[r].detail)]]
    /\ UNCHANGED <<phase, cache, built, attempts, env, loop, now, issued, store,
                   accepted, gating, resampling, launcher>>

\* ------------------------------------------------------- piper_http.py: /speak
\* The wrapper app is a process of its own, with an event loop of its own and
\* no startup hook.  Its handlers hold no await: subprocess.run is called from
\* the coroutine, which keeps that loop until the child has exited.
InPiper(q) == q.kind \in {"speak", "speak_get"} /\ q.pc = "piper"

\* the wrapper's event loop is free to dispatch
PiperLoopFree == \A q \in Req : ~InPiper(req[q])

\* a handler from the request to the start of the child, or to the
\* HTTPException (always of status 500) of a failure before it
SpeakStart(r, q) ==
    /\ PiperLoopFree
    /\ req[r].pc = "idle"
    /\ \E w \in PiperWorlds :
        LET kind == PiperKind(w)
        IN  req' = [req EXCEPT ![r] =
                IF Strip(q.text) = <<>>
                THEN [q EXCEPT !.pc = "done", !.status = 400, !.cause = "empty"]
                ELSE IF kind = "nomodelpath"
                THEN [q EXCEPT !.pc = "done", !.status = 500, !.cause = kind]
                ELSE IF kind \in {"noexe", "launch"}
                THEN [q EXCEPT !.pc = "done", !.status = 500, !.cause = kind,
                               !.backend = TRUE]
                ELSE [q EXCEPT !.pc = "piper", !.backend = TRUE]]
    /\ UNCHANGED <<phase, cache, built, attempts, env, loop, now, issued, store,
                   accepted, gating, resampling, launcher>>

\* POST /speak: the request model refuses a text of no characters
speak(r) ==
    \E t \in Texts :
        LET q == [Idle EXCEPT !.kind = "speak", !.text = t]
        IN  IF Len(t) < 1
            THEN /\ PiperLoopFree
                 /\ req[r].pc = "idle"
                 /\ req' = [req EXCEPT ![r] =
                        [q EXCEPT !.pc = "done", !.status = 422, !.cause = "validation"]]
                 /\ UNCHANGED <<phase, cache, built, attempts, env, loop, now, issued,
                                store, accepted, gating, resampling, launcher>>
            ELSE SpeakStart(r, q)

\* GET /speak?text=...
speak_get(r) ==
    \E t \in Texts : SpeakStart(r, [Idle EXCEPT !.kind = "speak_get", !.text = t])

\* subprocess.run returns in the handler: the rest of it, to the response
SpeakReturn(r) ==
    /\ InPiper(req[r])
    /\ \E w \in {v \in PiperWorlds : PiperKind(v) \in {"nonzero", "nooutput", "ok"}} :
        LET kind == PiperKind(w)
        IN  req' = [req EXCEPT ![r] =
                [@ EXCEPT !.pc = "done", !.cause = kind,
                          !.status = IF kind = "ok" THEN 200 ELSE 500]]
    /\ UNCHANGED <<phase, cache, built, attempts, env, loop, now, issued, store,
                   accepted, gating, resampling, launcher>>

\* ------------------------------------------------- wake tokens (from the spec)
TokenTTL == 1

Expired(t, time) == issued[t] # -1 /\ time > issued[t] + TokenTTL

\* wake() detects the wake phrase: issue() purges the expired entries and
\* stores a fresh token with the current time
Wake ==
    /\ CanDispatch
    /\ \E t \in Tokens :
        /\ issued[t] = -1
        /\ issued' = [issued EXCEPT ![t] = now]
        /\ store' = {u \in store : ~Expired(u, now)} \cup {t}
    /\ UNCHANGED <<phase, cache, built, attempts, env, req, loop, now, accepted,
                   gating, resampling, launcher>>

Tick ==
    /\ now < MaxTime
    /\ now' = now + 1
    /\ UNCHANGED <<phase, cache, built, attempts, env, req, loop, issued, store,
                   accepted, gating, resampling, launcher>>

\* ------------------------------------------------------ _resample_audio alone
\* buffer lengths and source rates of the calls
MaxFrames == 2007
SourceRates == {8000, 9600, 48000}

NotResampling == [pc |-> "none", size |-> 0, source_rate |-> 0, target_rate |-> 0, out |-> 0]

ResampleCalls ==
    [pc : {"call"}, size : 1..MaxFrames, source_rate : SourceRates,
     target_rate : {DEFAULT_SAMPLE_RATE}, out : {0}]

\* _resample_audio runs on a buffer of `size` samples of silence; `out` is
\* the length of the buffer it returns
Resample ==
    /\ resampling.pc = "call"
    /\ resampling' =
          [resampling EXCEPT
              !.pc = "returned",
              !.out = Len(_resample_audio([i \in 1..resampling.size |-> <<0, 32768>>],
                                          resampling.source_rate,
                                          resampling.target_rate))]
    /\ UNCHANGED <<phase, cache, built, attempts, env, req, loop, now, issued, store,
                   accepted, gating, launcher>>

\* ------------------------------------------- scripts/start_local_services.py
\* The launcher from the point where main() has registered the terminator
\* for SIGINT and SIGTERM.  The interpreter runs a signal handler on the main
\* thread, between two bytecodes of whatever runs there: `stack` holds the
\* terminator calls in progress, innermost last, and main() runs only while
\* it is empty.
MaxHandles == 2
MaxSignals == 2
Handles == 1..MaxHandles

NoChild == [state |-> "none", term |-> FALSE, kill |-> FALSE]

LauncherOff ==
    [main |-> "off", nowait |-> FALSE, next |-> 1, stack |-> <<>>, lock |-> 0,
     stopping |-> FALSE, bodies |-> 0, signals |-> 0,
     child |-> [h \in Handles |-> NoChild]]

LauncherStarts == {[LauncherOff EXCEPT !.main = "start", !.nowait = b] : b \in BOOLEAN}

LauncherAlive == launcher.main \in {"start", "poll", "except", "return"}

Top == launcher.stack[Len(launcher.stack)]
Pop(s) == SubSeq(s, 1, Len(s) - 1)
SetTop(s, pc) == [s EXCEPT ![Len(s)] = pc]

ServiceVars == <<phase, cache, built, attempts, env, req, loop, now, issued, store,
                 accepted, gating, resampling>>

\* ProcessHandle.poll() is not None: the child was started and has exited
Exited(c) == c.state = "exited"

\* main(): handle.start(env) for the next handle; Popen starts the child or
\* raises, and what it raises ends main()
StartNext ==
    /\ launcher.main = "start" /\ launcher.stack = <<>>
    /\ launcher.next <= MaxHandles
    /\ \E ok \in BOOLEAN :
        launcher' =
            IF ok
            THEN [launcher EXCEPT !.child[launcher.next].state = "running",
                                  !.next = @ + 1]
            ELSE [launcher EXCEPT !.main = "raised"]
    /\ UNCHANGED ServiceVars

\* main(): every handle is started; --no-wait returns 0, else the polling loop
Started ==
    /\ launcher.main = "start" /\ launcher.stack = <<>>
    /\ launcher.next > MaxHandles
    /\ launcher' = [launcher EXCEPT !.main = IF launcher.nowait THEN "returned" ELSE "poll"]
    /\ UNCHANGED ServiceVars

\* main(): a round of the polling loop that finds an exited child raises
\* SystemExit; a round that finds none sleeps and polls again
Poll ==
    /\ launcher.main = "poll" /\ launcher.stack = <<>>
    /\ \E h \in Handles : Exited(launcher.child[h])
    /\ launcher' = [launcher EXCEPT !.main = "except"]
    /\ UNCHANGED ServiceVars

\* main(): `except SystemExit` calls terminator(...)
CallTerminator ==
    /\ launcher.main = "except" /\ launcher.stack = <<>>
    /\ launcher' = [launcher EXCEPT !.main = "return", !.stack = <<"acquire">>]
    /\ UNCHANGED ServiceVars

\* main(): the terminator has returned; return int(exc.code)
Return ==
    /\ launcher.main = "return" /\ launcher.stack = <<>>
    /\ launcher' = [launcher EXCEPT !.main = "returned"]
    /\ UNCHANGED ServiceVars

\* SIGINT or SIGTERM reaches the launcher: the interpreter calls the
\* terminator on top of what the main thread is doing
Signal ==
    /\ LauncherAlive
    /\ launcher.signals < MaxSignals
    /\ launcher' = [launcher EXCEPT !.signals = @ + 1,
                                    !.stack = Append(@, "acquire")]
    /\ UNCHANGED ServiceVars

\* __call__: `with self._lock` takes the lock; threading.Lock is not
\* reentrant, so a call on top of the call that holds it waits for good
Acquire ==
    /\ launcher.stack # <<>> /\ Top = "acquire"
    /\ launcher.lock = 0
    /\ launcher' = [launcher EXCEPT !.lock = Len(launcher.stack),
                                    !.stack = SetTop(@, "check")]
    /\ UNCHANGED ServiceVars

\* __call__: the body of the `with`: return when already stopping, else set
\* _stopping; leaving the block releases the lock
CheckStopping ==
    /\ launcher.stack # <<>> /\ Top = "check"
    /\ launcher' =
          IF launcher.stopping
          THEN [launcher EXCEPT !.lock = 0, !.stack = Pop(@)]
          ELSE [launcher EXCEPT !.lock = 0, !.stopping = TRUE,
                                !.bodies = @ + 1,
                                !.stack = SetTop(@, "terminate")]
    /\ UNCHANGED ServiceVars

\* ProcessHandle.terminate() / kill(): nothing for a handle not started or
\* whose child has exited
Running(c) == c.state = "running"

\* __call__: handle.terminate() for every handle
TerminateAll ==
    /\ launcher.stack # <<>> /\ Top = "terminate"
    /\ launcher' =
          [launcher EXCEPT
              !.child = [h \in Handles |->
                           IF Running(@[h]) THEN [@[h] EXCEPT !.term = TRUE] ELSE @[h]],
              !.stack = SetTop(@, "wait")]
    /\ UNCHANGED ServiceVars

\* __call__: the waits, five seconds in all, are over; children exit during
\* them or do not
WaitDone ==
    /\ launcher.stack # <<>> /\ Top = "wait"
    /\ launcher' = [launcher EXCEPT !.stack = SetTop(@, "kill")]
    /\ UNCHANGED ServiceVars

\* __call__: handle.kill() for every handle whose poll() is None; the call
\* returns
KillAll ==
    /\ launcher.stack # <<>> /\ Top = "kill"
    /\ launcher' =
          [launcher EXCEPT
              !.child = [h \in Handles |->
                           IF Running(@[h]) THEN [@[h] EXCEPT !.kill = TRUE] ELSE @[h]],
              !.stack = Pop(@)]
    /\ UNCHANGED ServiceVars

\* a child exits: by itself, on the SIGTERM or by the SIGKILL
ChildExit(h) ==
    /\ launcher.main # "off"
    /\ Running(launcher.child[h])
    /\ launcher' = [launcher EXCEPT !.child[h].state = "exited"]
    /\ UNCHANGED ServiceVars

\* ------------------------------------------------------------ specifications
InitCommon ==
    /\ phase = "starting"
    /\ cache = 0
    /\ built = 0
    /\ attempts = <<>>
    /\ req = [r \in Req |-> Idle]
    /\ loop = 0
    /\ now = 0
    /\ issued = [t \in Tokens |-> -1]
    /\ store = {}
    /\ accepted = [t \in Tokens |-> 0]

DefaultEnv == [compute |-> Unset, device |-> Unset]

\* model loading under every configuration of device and compute type
InitLoad ==
    /\ InitCommon
    /\ resampling = NotResampling
    /\ launcher = LauncherOff
    /\ env \in [compute : ComputeEnv, device : DeviceEnv]
    /\ gating = FALSE

NextLoad ==
    \/ _startup_event
    \/ \E r \in Req : TranscribeArrive(r)
    \/ \E r \in Req : TranscribeRun(r)
    \/ \E r \in Req : TranscribeFinish(r)
    \/ \E r \in Req : healthcheck(r)
    \/ \E r \in Req : Recycle(r)

SpecLoad == InitLoad /\ [][NextLoad]_vars

\* wake tokens and transcription under the default configuration
InitGate ==
    /\ InitCommon
    /\ resampling = NotResampling
    /\ launcher = LauncherOff
    /\ env = DefaultEnv
    /\ gating \in BOOLEAN

NextGate ==
    \/ _startup_event
    \/ Wake
    \/ Tick
    \/ \E r \in Req : TranscribeArrive(r)
    \/ \E r \in Req : TranscribeArriveWithToken(r)
    \/ \E r \in Req : TranscribeRun(r)
    \/ \E r \in Req : TranscribeFinish(r)
    \/ \E r \in Req : Recycle(r)

SpecGate == InitGate /\ [][NextGate]_vars

\* the text endpoints under the default configuration
InitText ==
    /\ InitCommon
    /\ resampling = NotResampling
    /\ launcher = LauncherOff
    /\ env = DefaultEnv
    /\ gating = FALSE

NextText ==
    \/ _startup_event
    \/ \E r \in Req : RespondArrive(r)
    \/ \E r \in Req : RespondFinish(r)
    \/ \E r \in Req : SynthArrive(r)
    \/ \E r \in Req : PiperJob(r)
    \/ \E r \in Req : SynthFinish(r)
    \/ \E r \in Req : speak(r)
    \/ \E r \in Req : speak_get(r)
    \/ \E r \in Req : SpeakReturn(r)
    \/ \E r \in Req : healthcheck(r)
    \/ \E r \in Req : Recycle(r)

SpecText == InitText /\ [][NextText]_vars

\* what transcribe makes of the backend's segments
NextSpeech ==
    \/ _startup_event
    \/ \E r \in Req : TranscribeArriveSpeech(r)
    \/ \E r \in Req : TranscribeRun(r)
    \/ \E r \in Req : TranscribeFinish(r)
    \/ \E r \in Req : Recycle(r)

SpecSpeech == InitText /\ [][NextSpeech]_vars

\* what transcribe feeds the model
NextAudio ==
    \/ _startup_event
    \/ \E r \in Req : TranscribeArriveAudio(r)
    \/ \E r \in Req : TranscribeRun(r)
    \/ \E r \in Req : TranscribeFinish(r)
    \/ \E r \in Req : Recycle(r)

SpecAudio == InitText /\ [][NextAudio]_vars

\* _resample_audio on buffers of every length up to MaxFrames
InitResample ==
    /\ InitCommon
    /\ env = DefaultEnv
    /\ gating = FALSE
    /\ resampling \in ResampleCalls
    /\ launcher = LauncherOff

NextResample == Resample

SpecResample == InitResample /\ [][NextResample]_vars

\* the launcher
InitLauncher ==
    /\ InitCommon
    /\ env = DefaultEnv
    /\ gating = FALSE
    /\ resampling = NotResampling
    /\ launcher \in LauncherStarts

NextLauncher ==
    \/ StartNext
    \/ Started
    \/ Poll
    \/ CallTerminator
    \/ Return
    \/ Signal
    \/ Acquire
    \/ CheckStopping
    \/ TerminateAll
    \/ WaitDone
    \/ KillAll
    \/ \E h \in Handles : ChildExit(h)

SpecLauncher == InitLauncher /\ [][NextLauncher]_vars

\* The whole service: every endpoint under every configuration.  Handlers of
\* different endpoints share only `loop` and `cache`, so each property is
\* checked under the specification above that holds its endpoints.
Init ==
    /\ InitCommon
    /\ resampling = NotResampling
    /\ launcher = LauncherOff
    /\ env \in [compute : ComputeEnv, device : DeviceEnv]
    /\ gating \in BOOLEAN

Next == NextLoad \/ NextGate \/ NextText \/ NextSpeech \/ NextAudio

Spec == Init /\ [][Next]_vars

\* ------------------------------------------------------------------ claims
ClientError(st) == st >= 400 /\ st <= 499

Rejected(q) == q.pc = "done" /\ ClientError(q.status) /\ ~q.model

\* C1: a wake token succeeds exactly once in transcribe(): at most one
\* transcribe carrying a given token is accepted, and none before the token
\* was issued.
C1_TokenSingleUse ==
    \A t \in Tokens :
        /\ accepted[t] <= 1
        /\ accepted[t] >= 1 => issued[t] # -1

\* C2: a transcribe presenting an issued token later than issue time + TTL
\* is rejected with an authorization error.
C2_ExpiredTokenRejected ==
    \A r \in Req :
        (/\ req[r].kind = "transcribe"
         /\ req[r].token # 0
         /\ req[r].model
         /\ issued[req[r].token] # -1
         /\ issued[req[r].token] <= req[r].at)
        => req[r].at <= issued[req[r].token] + TokenTTL

\* C3: with token gating enabled the transcription model runs only for a
\* request that carried a token and consumed it: an issued token, within its
\* TTL, used by no other accepted request.
C3_GatedModelUse ==
    gating =>
        \A r \in Req :
            req[r].model =>
                /\ req[r].token # 0
                /\ issued[req[r].token] # -1
                /\ issued[req[r].token] <= req[r].at
                /\ req[r].at <= issued[req[r].token] + TokenTTL
                /\ accepted[req[r].token] <= 1

\* C4: the transcription model is constructed successfully at most once per
\* process; every later call of the loader returns that one cached handle,
\* which is never evicted or rebuilt.
C4_ModelBuiltOnce ==
    /\ built <= 1
    /\ Cardinality({i \in DOMAIN attempts : attempts[i].ok}) <= 1
    /\ built = 1 => cache = 1
    /\ \A r \in Req : req[r].model => req[r].handle = cache /\ cache # 0

C4_Witness ==
    /\ built = 1
    /\ \E r \in Req, q \in Req :
        /\ r # q
        /\ req[r].model /\ req[r].pc = "done" /\ req[r].status = 200
        /\ req[q].model /\ req[q].handle = req[r].handle

\* C5: model construction tries the preferred device first; only if that
\* fails it tries once more, on CPU, with int8 for a float16-based compute
\* type and the requested type otherwise; a CPU preference makes one CPU
\* attempt; if the last attempt fails, startup fails and nothing is cached.
Float16Based == {sInt8Float16, sFloat16, sBFloat16, sUpperFloat16}

C5_TwoAttemptFallback ==
    phase # "starting" =>
        LET requested == IF env.compute = Unset THEN sInt8Float16 ELSE env.compute
            derived == IF requested \in Float16Based THEN sInt8 ELSE requested
            cpuPref == env.device \in {sCpu, sUpperCpu, sCpu \o <<" ">>}
            n == Len(attempts)
        IN  /\ n >= 1
            /\ IF cpuPref
               THEN n = 1 /\ attempts[1].device = "cpu"
               ELSE /\ attempts[1].device = "cuda"
                    /\ attempts[1].compute = requested
                    /\ attempts[1].ok => n = 1
                    /\ ~attempts[1].ok =>
                        /\ n = 2
                        /\ attempts[2].device = "cpu"
                        /\ attempts[2].compute = derived
            /\ ~attempts[n].ok => phase = "aborted" /\ cache = 0

C5_Witness ==
    /\ phase = "ready"
    /\ Len(attempts) = 2
    /\ ~attempts[1].ok /\ attempts[1].device = "cuda"
    /\ attempts[1].compute = sInt8Float16
    /\ attempts[2].ok /\ attempts[2].device = "cpu" /\ attempts[2].compute = sInt8

\* C6: a model that cannot be constructed aborts startup; no request is
\* served, and no request triggers a construction, unless startup has
\* constructed the model.
C6_StartupLoadsModel ==
    /\ \A i \in DOMAIN attempts : attempts[i].by = "startup"
    /\ \A r \in Req :
        req[r].pc # "idle" =>
            /\ phase = "ready"
            /\ \E i \in DOMAIN attempts : attempts[i].by = "startup" /\ attempts[i].ok
    /\ phase = "aborted" => cache = 0

C6_Witness ==
    /\ phase = "aborted"
    /\ Len(attempts) = 2
    /\ \A i \in DOMAIN attempts : ~attempts[i].ok
    /\ \A r \in Req : req[r] = Idle

\* C7: a text that is empty after trimming makes respond(), synthesize() and
\* speak() fail with a client error, and no backend call is made for it.
C7_BlankTextRejected ==
    \A r \in Req :
        (req[r].kind \in {"respond", "synthesize", "speak"} /\ Strip(req[r].text) = <<>>)
        => /\ req[r].pc = "done"
           /\ ClientError(req[r].status)
           /\ ~req[r].backend

C7_Witness ==
    \E r \in Req, q \in Req :
        /\ req[r].kind = "respond" /\ req[r].text = <<" ">> /\ req[r].status = 400 /\ ~req[r].backend
        /\ req[q].kind = "synthesize" /\ req[q].text = <<" ">> /\ req[q].status = 400 /\ ~req[q].backend

\* C8: respond() succeeds only on a success status with a generated text that
\* is non-empty after trimming; every other backend outcome gives the 502
\* upstream error.
C8_RespondUpstreamErrors ==
    \A r \in Req :
        (req[r].kind = "respond" /\ req[r].pc = "done" /\ req[r].backend)
        => /\ req[r].status = 200 => req[r].cause = "text" /\ req[r].detail # <<>>
           /\ req[r].cause # "text" => req[r].status = 502

\* C9: synthesize() succeeds only when Piper was launched, exited 0 and wrote
\* its file; a missing executable gives 500, a missing model path 503, a
\* non-zero exit 500 whatever its stderr, a missing output file 500.
C9_SynthFailureStatus ==
    \A r \in Req :
        (req[r].kind = "synthesize" /\ req[r].pc = "done" /\ req[r].cause # "empty"
            /\ req[r].cause # "validation")
        => /\ req[r].status = 200 <=> req[r].cause = "ok"
           /\ req[r].cause = "noexe" => req[r].status = 500
           /\ req[r].cause = "nomodelpath" => req[r].status = 503
           /\ req[r].cause = "nonzero" => req[r].status = 500
           /\ req[r].cause = "nooutput" => req[r].status = 500

\* C10: a transcribe payload of zero bytes or of an odd number of bytes
\* fails with a client error and the model is not invoked.
C10_BadPayloadRejected ==
    \A r \in Req :
        (/\ req[r].kind = "transcribe"
         /\ req[r].pc \notin {"idle", "body"}
         /\ (req[r].bytes = 0 \/ req[r].bytes % 2 = 1))
        => Rejected(req[r])

\* ---- transcription results
Transcribed(q) == q.kind = "transcribe" /\ q.pc = "done" /\ q.status = 200

RECURSIVE AllWords(_)
AllWords(segments) ==
    IF segments = <<>> THEN <<>>
    ELSE SelectSeq(Head(segments).words, HasText) \o AllWords(Tail(segments))

\* the text the backend recognized: its segments' texts or, when they hold
\* none, its words
Recognized(segments) ==
    LET texts == Strip(Join(CollectTexts(segments)))
        raw   == AllWords(segments)
    IN  IF texts # <<>> THEN texts
        ELSE Strip(Join([i \in 1..Len(raw) |-> Strip(raw[i].word)]))

\* C11: when the recognized text, lowercased and trimmed, is one of the
\* configured near-spellings of the wake word, the text transcribe returns is
\* the configured wake word itself -- whether the text came from the segments
\* or was put together from the words.
C11_WakePhraseNormalized ==
    \A r \in Req :
        (Transcribed(req[r]) /\ Lower(Strip(Recognized(req[r].heard))) \in WAKE_WORD_ALIASES)
            => req[r].reply.text = WAKE_WORD

\* C12 (as the handler has it): the result holds, in the backend's order, the
\* backend's words of non-blank text, each trimmed, with start >= 0 and
\* end >= 0; end >= start holds for a word whose end the backend reported
\* and reported no earlier than its start.
C12_WordEntriesClamped ==
    \A r \in Req :
        Transcribed(req[r]) =>
            LET res == req[r].reply.result
                raw == AllWords(req[r].heard)
            IN  /\ Len(res) = Len(raw)
                /\ \A i \in 1..Len(res) :
                    /\ res[i].word = Strip(raw[i].word)
                    /\ res[i].word # <<>>
                    /\ res[i].start >= 0
                    /\ res[i].end >= 0
                    /\ (raw[i].end.has /\ (raw[i].start.has => raw[i].end.val >= raw[i].start.val))
                           => res[i].end >= res[i].start

\* a result with a word whose start the backend reported negative, and one
\* with two words after a blank one was dropped
C12_Witness ==
    /\ \E r \in Req :
        /\ Transcribed(req[r])
        /\ Len(req[r].reply.result) = 1
        /\ AllWords(req[r].heard)[1].start = Some(-1)
        /\ AllWords(req[r].heard)[1].end = Some(2)
    /\ \E r \in Req :
        /\ Transcribed(req[r])
        /\ Len(req[r].reply.result) = 2
        /\ Len(req[r].heard[1].words) = 3

\* C12 (as stated): every word entry has non-empty trimmed text and
\* end >= start >= 0, whatever start and end the backend reported.
C12_WordEntriesOrdered ==
    \A r \in Req :
        Transcribed(req[r]) =>
            \A i \in 1..Len(req[r].reply.result) :
                LET w == req[r].reply.result[i]
                IN  /\ w.word # <<>> /\ Strip(w.word) = w.word
                    /\ w.end >= w.start /\ w.start >= 0

\* ---- the event loops
AwaitsSubprocess(q) == (q.kind = "synthesize" /\ q.pc = "executor") \/ InPiper(q)

\* C13: in every synthesis endpoint the synthesis subprocess runs off the
\* thread that dispatches requests: while a request waits for its subprocess,
\* the app that serves it can take another request.
C13_SynthesisOffLoop ==
    \A r \in Req, q \in Req :
        (AwaitsSubprocess(req[r]) /\ req[q].pc = "idle")
            => IF req[r].kind = "synthesize" THEN ENABLED SynthArrive(q)
               ELSE ENABLED speak(q)

\* C14: the transcription inference runs in the worker pool: while a
\* transcribe request is in inference, the app can take and answer a
\* healthcheck and take a second transcribe request.
C14_InferenceOffLoop ==
    \A r \in Req, q \in Req :
        (req[r].kind = "transcribe" /\ req[r].pc = "infer" /\ req[q].pc = "idle")
            => ENABLED healthcheck(q) /\ ENABLED TranscribeArrive(q)

\* ---- resampling
CeilDiv(a, b) == (a + b - 1) \div b

\* C15: for a non-empty buffer and a source rate other than the target
\* rate, the resampled buffer has ceil(len * target_rate / source_rate)
\* samples.
C15_ResampledLength ==
    (resampling.pc = "returned" /\ resampling.source_rate # resampling.target_rate)
        => resampling.out = CeilDiv(resampling.size * resampling.target_rate,
                                    resampling.source_rate)

\* what astype_float32 makes of the buffers a body can hold
FloatBuffers == {astype_float32(x) : x \in PcmBuffers} \cup {<<>>}

\* C16: _resample_audio returns the buffer itself when the two rates are
\* equal or the buffer is empty, and a transcribe request at the canonical
\* rate feeds the model the float-converted samples of its body, as many and
\* in the same order.
C16_PassThrough ==
    /\ \A x \in FloatBuffers, r \in SampleRates :
          /\ _resample_audio(x, r, r) = x
          /\ \A t \in SampleRates : _resample_audio(<<>>, r, t) = <<>>
    /\ \A r \in Req :
          (req[r].kind = "transcribe" /\ req[r].model /\ req[r].rate = DEFAULT_SAMPLE_RATE)
              => /\ Len(req[r].fed) = Len(req[r].pcm)
                 /\ \A i \in 1..Len(req[r].pcm) : req[r].fed[i] = <<req[r].pcm[i], 32768>>

\* a request at the canonical rate whose three samples reached the model,
\* next to one at 8000 Hz whose buffer was resampled to twice its length
C16_Witness ==
    \E r \in Req, q \in Req :
        /\ Transcribed(req[r]) /\ req[r].rate = DEFAULT_SAMPLE_RATE
        /\ req[r].pcm = <<-32768, 0, 32767>> /\ Len(req[r].fed) = 3
        /\ req[q].kind = "transcribe" /\ req[q].model /\ req[q].rate = 8000
        /\ Len(req[q].fed) = 2 * Len(req[q].pcm)

\* ---- the launcher
WasStarted(c) == c.state # "none"

\* C17: once the launcher has handled a shutdown and returned, every child
\* it started has exited or has been sent the kill after the terminate; the
\* shutdown body runs at most once; and a signal that arrives during the
\* shutdown does not leave the launcher waiting for good.
C17_ShutdownLeavesNoChild ==
    /\ (launcher.main = "returned" /\ launcher.stopping)
          => \A h \in Handles :
                WasStarted(launcher.child[h])
                    => \/ Exited(launcher.child[h])
                       \/ launcher.child[h].term /\ launcher.child[h].kill
    /\ launcher.bodies <= 1
    /\ ~(launcher.stack # <<>> /\ Top = "acquire" /\ launcher.lock # 0)
====
